---- MODULE Spec2Model ----
(***************************************************************************)
(* Model of gear_inventory_check.py: the command `main` pulls the stock    *)
(* levels of a product catalog over HTTP (get_current_stock_values,        *)
(* handle_variations, handle_variation), replaces today's rows of the      *)
(* sqlite table INVENTORY (db_ops, create_database, DELETE, VACUUM,        *)
(* INSERT) and prints.  split_address parses a "from" address.             *)
(***************************************************************************)
EXTENDS Bags, FiniteSets, Integers, Sequences, TLC

VARIABLES
    today,      \* the local calendar date (date.today(), datetime('now','localtime'))
    store,      \* the rows of table INVENTORY in the database file, as a bag
    schema,     \* whether table INVENTORY exists in the database file
    pc,         \* the position of the running process in main
    env,        \* the configuration variables present in the environment
    debug,      \* option --debug
    print_arg,  \* option --print
    catalog,    \* what the catalog answers to GET products/ during this run
    stack,      \* the Python call stack of handle_variations / handle_variation
    products,   \* the local variable `products` of get_current_stock_values / main
    todo,       \* the parameter sets executemany has not inserted yet
    out,        \* what the process has printed
    sent,       \* the emails handed to the mail transport
    result,     \* how the process ended: "ok", an exception name, or "crash"
    stage,      \* the position the process was at when it ended
    store0,     \* history: the table when the process started
    day0,       \* history: the date when the process started
    replaced,   \* history: the last replace of today's rows that ran to its end
    email_address, \* the argument of split_address
    split       \* the value split_address returned

vars == << today, store, schema, pc, env, debug, print_arg, catalog, stack,
           products, todo, out, sent, result, stage, store0, day0, replaced,
           email_address, split >>

-----------------------------------------------------------------------------
(* Bounds of the model *)

\* the calendar dates are 1..MaxDay
MaxDay == 2

\* the depth of handle_* frames the interpreter allows before RecursionError
\* (sys.getrecursionlimit() of CPython is 1000; the model scales it down)
RecursionLimit == 4

\* the deepest tree of variation ids the flattening property is stated for
MaxDepth == 3

\* the longest string given to split_address
MaxLen == 5

-----------------------------------------------------------------------------
(* JSON values of the catalog *)

\* JSON null / Python None where a number stands (an id, a stock quantity)
None == 0 - 1

\* JSON null / Python None where a name stands; no product is named so
NoName == "\\null"

\* an element of a `variations` list that is a product id
Id(n) == [v |-> n]

\* an element of a `variations` list that is an object with its own list
Dict(vs) == [variations |-> vs]

\* whether a JSON value is a number / an object with the key "variations"
IsInt(x) == "v" \in DOMAIN x
IsDict(x) == "variations" \in DOMAIN x

\* a product object as the catalog returns it
Product(i, n, ty, q, vs) ==
    [id |-> i, name |-> n, type |-> ty, stock_quantity |-> q, variations |-> vs]

\* GET products/{id}: the object of a variation, or <<>> when the catalog
\* answers with an error object that has none of the product fields
Remote(i) ==
    CASE i = 11 -> << Product(11, "cap-s", "variation", 2, <<>>) >>
      [] i = 12 -> << Product(12, "cap-l", "variation", 1, <<>>) >>
      [] i = 13 -> << Product(13, "cap-red", "variation", 0, << Id(11) >>) >>
      [] i = 14 -> << Product(14, "loop", "variation", 0, << Id(14) >>) >>
      [] i = 15 -> << Product(15, "knot", "variation", 0, << Dict(<< Id(15) >>) >>) >>
      [] i = 16 -> << Product(16, "cap-blue", "variation", 0, << Dict(<< Id(11), Id(12) >>) >>) >>
      [] OTHER -> << >>

\* the answers to GET products/ the model draws from: a request that raises
\* (requests.ConnectionError, ok = FALSE) or the decoded list of products
Catalogs ==
    { [ok |-> FALSE, list |-> << >>],
      [ok |-> TRUE, list |-> << Product(1, "mug", "simple", 5, <<>>) >>],
      [ok |-> TRUE, list |-> << Product(1, "mug", "simple", 3, <<>>),
                                Product(3, "cap", "variable", 0, << Id(11), Id(12) >>) >>],
      [ok |-> TRUE, list |-> << Product(4, "cap2", "variable", 0, << Id(13) >>) >>],
      [ok |-> TRUE, list |-> << Product(5, "cap3", "variable", 0, << Id(14) >>) >>],
      [ok |-> TRUE, list |-> << Product(6, "cap4", "variable", 0, << Id(15) >>) >>],
      [ok |-> TRUE, list |-> << Product(7, "cap5", "variable", 0, << Id(16) >>) >>],
      [ok |-> TRUE, list |-> << Product(1, "mug", "simple", 5, <<>>),
                                Product(2, "pen", "simple", None, <<>>) >>],
      [ok |-> TRUE, list |-> << Product(None, "pen", "simple", 5, <<>>) >>],
      [ok |-> TRUE, list |-> << Product(1, NoName, "simple", 5, <<>>) >>],
      [ok |-> TRUE, list |-> << Product(3, "cap", "variable", 0, << Id(11), Id(11) >>) >>],
      [ok |-> TRUE, list |-> << Product(8, "cap6", "variable", 0, << Id(18) >>) >>],
      [ok |-> TRUE, list |-> << Product(9, "set", "grouped", 0, <<>>) >>] }

\* the configuration variables main's code reads
Required == { "MAIL_FROM", "API_BASE", "API_USER", "API_PASS", "DB_FILE" }

\* the invocations the model draws from: environment and command line flags
Invocations ==
    { [env |-> Required, debug |-> d, print_arg |-> p] : d \in BOOLEAN, p \in BOOLEAN }
    \cup { [env |-> Required \ {v}, debug |-> FALSE, print_arg |-> FALSE] : v \in Required }

-----------------------------------------------------------------------------
(* get_current_stock_values, handle_variations, handle_variation *)

\* the dictionary the code builds from a catalog object
Stock(x) == [id |-> x.id, name |-> x.name, quantity |-> x.stock_quantity]

\* [x for x in all if x['type'] == ty]
OfType(all, ty) == SelectSeq(all, LAMBDA x : x.type = ty)

\* the list comprehension that turns the simple products into stock records
SimpleStock(all) ==
    LET simple == OfType(all, "simple")
    IN  [k \in 1..Len(simple) |-> Stock(simple[k])]

\* a frame of handle_variations or handle_variation: the function, the part of
\* its argument list the for loop has not reached, and its local `products`
Frame(fn, list) == [fn |-> fn, rest |-> list, products |-> << >>]

\* a call: neither function bounds its depth or remembers what it visited, so
\* a frame is pushed until the interpreter itself raises RecursionError
Call(stk, frame) ==
    IF Len(stk) >= RecursionLimit
    THEN [raised |-> "RecursionError", stack |-> stk]
    ELSE [raised |-> "", stack |-> Append(stk, frame)]

\* the stack with the loop of its top frame advanced past the current element
Advance(stk) ==
    [stk EXCEPT ![Len(stk)].rest = Tail(@)]

\* the stack after its top frame returned `value` to the frame below, which
\* runs `products = products + <the call>`
Return(stk, value) ==
    LET below == SubSeq(stk, 1, Len(stk) - 1)
    IN  IF below = << >> THEN below
        ELSE [below EXCEPT ![Len(below)].products = @ \o value]

\* the body of requests.get(API_BASE + 'products/' + str(variation)).json():
\* an id is looked up; the text of a dictionary names no product
Response(variation) ==
    IF IsInt(variation) THEN Remote(variation.v) ELSE << >>

\* one pass of the loop of handle_variations over element `variation`
\* (variation["variations"] of an id raises TypeError)
VariationsStep(stk, variation) ==
    IF ~IsDict(variation)
    THEN [raised |-> "TypeError", stack |-> stk]
    ELSE Call(Advance(stk), Frame("handle_variation", variation.variations))

\* one pass of the loop of handle_variation over element `variation`
\* (item['variations'] of an error object raises KeyError)
VariationStep(stk, variation) ==
    LET response == Response(variation)
        item == response[1]
    IN  IF response = << >>
        THEN [raised |-> "KeyError", stack |-> stk]
        ELSE IF item.variations # << >>
        THEN Call(Advance(stk), Frame("handle_variations", item.variations))
        ELSE [raised |-> "",
              stack |-> [Advance(stk) EXCEPT ![Len(stk)].products =
                                                  Append(@, Stock(item))]]

-----------------------------------------------------------------------------
(* the table INVENTORY *)

\* the row an INSERT writes: datetime('now', 'localtime') on date `d` (the
\* model keeps the calendar date of the timestamp, which is all date(date)
\* reads) and the three named parameters
Row(d, p) == [date |-> d, id |-> p.id, name |-> p.name, quantity |-> p.quantity]

\* the NOT NULL constraints of the columns ID, NAME and QUANTITY
NotNull(p) == p.id # None /\ p.name # NoName /\ p.quantity # None

\* a DELETE whose predicate matches no row
DeleteToday_none(st, d) == st

\* a DELETE without its WHERE clause
DeleteToday_all(st, d) == EmptyBag

\* DELETE FROM inventory WHERE date(date) = d
DeleteToday(st, d) ==
    LET keep == { r \in DOMAIN st : r.date # d }
    IN  [r \in keep |-> st[r]]

\* INSERT INTO inventory(date, id, name, quantity) VALUES(...) of one row
Insert(st, r) == st (+) SetToBag({r})

\* a list of stock records as a bag
BagOf(seq) ==
    LET S == { seq[k] : k \in 1..Len(seq) }
    IN  [x \in S |-> Cardinality({ k \in 1..Len(seq) : seq[k] = x })]

\* format_products: one line per product, the quantity then the name
format_products(prods) ==
    [k \in 1..Len(prods) |-> << prods[k].quantity, prods[k].name >>]

\* main without the fixed line of --debug
Printed_quiet(prods, p, d) ==
    IF p THEN << [table |-> format_products(prods)] >> ELSE << >>

\* what main prints after the database block: the table under --print, then
\* the fixed line under --debug
Printed(prods, p, d) ==
    (IF p THEN << [table |-> format_products(prods)] >> ELSE << >>)
    \o (IF d THEN << [line |-> "Cartridge Status"] >> ELSE << >>)

-----------------------------------------------------------------------------
(* the state machine of main *)

\* no replace of today's rows has run to its end yet
NoReplace == [day |-> 0, input |-> EmptyBag, store |-> EmptyBag]

\* the positions of a running process
Running == { "get", "expand", "db_open", "db_delete", "db_vacuum", "db_insert", "print" }

\* the positions between the DELETE and the end of the INSERTs
Replacing == { "db_vacuum", "db_insert" }

\* the state before the first run: no database file yet
MainInit ==
    /\ today = 1
    /\ store = EmptyBag
    /\ schema = FALSE
    /\ pc = "idle"
    /\ env = Required
    /\ debug = FALSE
    /\ print_arg = FALSE
    /\ catalog = [ok |-> FALSE, list |-> << >>]
    /\ stack = << >>
    /\ products = << >>
    /\ todo = << >>
    /\ out = << >>
    /\ sent = << >>
    /\ result = ""
    /\ stage = ""
    /\ store0 = EmptyBag
    /\ day0 = 1
    /\ replaced = NoReplace

Init ==
    /\ MainInit
    /\ email_address = << >>
    /\ split = << >>

\* an uncaught exception, or the process being killed: the process ends where
\* it is; nothing in db_ops or main catches it or rolls anything back
Raise(name) ==
    /\ pc' = "exit"
    /\ result' = name
    /\ stage' = pc

\* the command is started: options parsed by click, load_dotenv
StartRun ==
    /\ pc = "idle"
    /\ \E inv \in Invocations, cat \in Catalogs :
          /\ env' = inv.env
          /\ debug' = inv.debug
          /\ print_arg' = inv.print_arg
          /\ catalog' = cat
    /\ pc' = "get"
    /\ stack' = << >>
    /\ products' = << >>
    /\ todo' = << >>
    /\ out' = << >>
    /\ result' = ""
    /\ stage' = ""
    /\ store0' = store
    /\ day0' = today
    /\ UNCHANGED << today, store, schema, sent, replaced, email_address, split >>

\* a main that deletes today's rows before it asks the catalog
GetProducts_delete ==
    /\ pc = "get"
    /\ store' = DeleteToday(store, today)
    /\ IF "API_BASE" \notin env
       THEN Raise("TypeError") /\ UNCHANGED << products, stack >>
       ELSE IF ~catalog.ok
       THEN Raise("ConnectionError") /\ UNCHANGED << products, stack >>
       ELSE /\ products' = SimpleStock(catalog.list)
            /\ stack' = Call(<< >>, Frame("handle_variations",
                                          OfType(catalog.list, "variable"))).stack
            /\ pc' = "expand"
            /\ UNCHANGED << result, stage >>
    /\ UNCHANGED << today, schema, env, debug, print_arg, catalog, todo,
                    out, sent, store0, day0, replaced, email_address, split >>

\* get_current_stock_values up to its call of handle_variations
GetProducts ==
    /\ pc = "get"
    /\ IF "API_BASE" \notin env
       THEN Raise("TypeError") /\ UNCHANGED << products, stack >>
       ELSE IF ~catalog.ok
       THEN Raise("ConnectionError") /\ UNCHANGED << products, stack >>
       ELSE /\ products' = SimpleStock(catalog.list)
            /\ stack' = Call(<< >>, Frame("handle_variations",
                                          OfType(catalog.list, "variable"))).stack
            /\ pc' = "expand"
            /\ UNCHANGED << result, stage >>
    /\ UNCHANGED << today, store, schema, env, debug, print_arg, catalog, todo,
                    out, sent, store0, day0, replaced, email_address, split >>

\* the effect of one pass of a loop: the new stack, or the exception
LoopStep(r) ==
    /\ IF r.raised # ""
       THEN Raise(r.raised) /\ UNCHANGED stack
       ELSE stack' = r.stack /\ UNCHANGED << pc, result, stage >>
    /\ UNCHANGED << today, store, schema, env, debug, print_arg, catalog,
                    products, todo, out, sent, store0, day0, replaced,
                    email_address, split >>

\* one pass of the for loop of handle_variations
HandleVariations ==
    /\ pc = "expand"
    /\ stack[Len(stack)].fn = "handle_variations"
    /\ stack[Len(stack)].rest # << >>
    /\ LoopStep(VariationsStep(stack, Head(stack[Len(stack)].rest)))

\* one pass of the for loop of handle_variation
HandleVariation ==
    /\ pc = "expand"
    /\ stack[Len(stack)].fn = "handle_variation"
    /\ stack[Len(stack)].rest # << >>
    /\ LoopStep(VariationStep(stack, Head(stack[Len(stack)].rest)))

\* `return products` of handle_variations or handle_variation; the outermost
\* return ends get_current_stock_values, whose value main keeps
ReturnProducts ==
    /\ pc = "expand"
    /\ stack[Len(stack)].rest = << >>
    /\ stack' = Return(stack, stack[Len(stack)].products)
    /\ IF Len(stack) = 1
       THEN /\ products' = products \o stack[1].products
            /\ pc' = "db_open"
       ELSE UNCHANGED << products, pc >>
    /\ UNCHANGED << today, store, schema, env, debug, print_arg, catalog, todo,
                    out, sent, result, stage, store0, day0, replaced,
                    email_address, split >>

\* `with db_ops(os.getenv("DB_FILE")) as cursor`: sqlite3.connect in autocommit
\* mode (isolation_level=None), then create_database
DbOpen ==
    /\ pc = "db_open"
    /\ IF "DB_FILE" \notin env
       THEN Raise("TypeError") /\ UNCHANGED schema
       ELSE schema' = TRUE /\ pc' = "db_delete" /\ UNCHANGED << result, stage >>
    /\ UNCHANGED << today, store, env, debug, print_arg, catalog, stack, products,
                    todo, out, sent, store0, day0, replaced, email_address, split >>

\* the DELETE of today's rows; no transaction is open, so it is durable at once
DbDelete ==
    /\ pc = "db_delete"
    /\ store' = DeleteToday(store, today)
    /\ pc' = "db_vacuum"
    /\ UNCHANGED << today, schema, env, debug, print_arg, catalog, stack, products,
                    todo, out, sent, result, stage, store0, day0, replaced,
                    email_address, split >>

\* VACUUM, which changes no row; executemany then starts on `products`
DbVacuum ==
    /\ pc = "db_vacuum"
    /\ todo' = products
    /\ pc' = "db_insert"
    /\ UNCHANGED << today, store, schema, env, debug, print_arg, catalog, stack,
                    products, out, sent, result, stage, store0, day0, replaced,
                    email_address, split >>

\* executemany inserts the next row, each INSERT durable at once, or raises
\* sqlite3.IntegrityError on a NULL
DbInsert ==
    /\ pc = "db_insert"
    /\ todo # << >>
    /\ IF NotNull(Head(todo))
       THEN /\ store' = Insert(store, Row(today, Head(todo)))
            /\ todo' = Tail(todo)
            /\ UNCHANGED << pc, result, stage >>
       ELSE Raise("IntegrityError") /\ UNCHANGED << store, todo >>
    /\ UNCHANGED << today, schema, env, debug, print_arg, catalog, stack, products,
                    out, sent, store0, day0, replaced, email_address, split >>

\* the end of the with block: connection.commit() and connection.close()
DbClose ==
    /\ pc = "db_insert"
    /\ todo = << >>
    /\ pc' = "print"
    /\ replaced' = IF day0 = today
                   THEN [day |-> today, input |-> BagOf(products), store |-> store]
                   ELSE replaced
    /\ UNCHANGED << today, store, schema, env, debug, print_arg, catalog, stack,
                    products, todo, out, sent, result, stage, store0, day0,
                    email_address, split >>

\* the rest of main: print under --print, the fixed line and return under --debug
Finish ==
    /\ pc = "print"
    /\ out' = out \o Printed(products, print_arg, debug)
    /\ pc' = "exit"
    /\ result' = "ok"
    /\ stage' = "print"
    /\ UNCHANGED << today, store, schema, env, debug, print_arg, catalog, stack,
                    products, todo, sent, store0, day0, replaced, email_address, split >>

\* the process is gone: its memory is released, the database file stays
Exit ==
    /\ pc = "exit"
    /\ pc' = "idle"
    /\ env' = Required
    /\ debug' = FALSE
    /\ print_arg' = FALSE
    /\ catalog' = [ok |-> FALSE, list |-> << >>]
    /\ stack' = << >>
    /\ products' = << >>
    /\ todo' = << >>
    /\ out' = << >>
    /\ result' = ""
    /\ stage' = ""
    /\ store0' = store
    /\ day0' = today
    /\ UNCHANGED << today, store, schema, sent, replaced, email_address, split >>

\* the process is killed (power loss, signal) wherever it is
Crash ==
    /\ pc \in Running
    /\ Raise("crash")
    /\ UNCHANGED << today, store, schema, env, debug, print_arg, catalog, stack,
                    products, todo, out, sent, store0, day0, replaced,
                    email_address, split >>

\* midnight passes
Tick ==
    /\ today < MaxDay
    /\ today' = today + 1
    /\ replaced' = NoReplace
    /\ UNCHANGED << store, schema, pc, env, debug, print_arg, catalog, stack,
                    products, todo, out, sent, result, stage, store0, day0,
                    email_address, split >>

Next ==
    \/ StartRun
    \/ GetProducts
    \/ HandleVariations
    \/ HandleVariation
    \/ ReturnProducts
    \/ DbOpen
    \/ DbDelete
    \/ DbVacuum
    \/ DbInsert
    \/ DbClose
    \/ Finish
    \/ Exit
    \/ Crash
    \/ Tick

Spec == Init /\ [][Next]_vars

\* the catalog client alone, run to completion: a single-threaded process
\* that is not killed takes its next step
FetchNext ==
    \/ StartRun
    \/ GetProducts
    \/ HandleVariations
    \/ HandleVariation
    \/ ReturnProducts
    \/ Exit

FetchSpec ==
    /\ Init
    /\ [][FetchNext]_vars
    /\ WF_vars(GetProducts \/ HandleVariations \/ HandleVariation \/ ReturnProducts)

-----------------------------------------------------------------------------
(* split_address; a string is a sequence of characters *)

\* the characters the model builds addresses from
Chars == { "a", "N", " ", "<", ">" }

\* str.split(sep) as a list of the parts between the separators
RECURSIVE str_split(_, _)
str_split(s, sep) ==
    IF \A k \in 1..Len(s) : s[k] # sep
    THEN << s >>
    ELSE LET k == CHOOSE i \in 1..Len(s) :
                     s[i] = sep /\ \A j \in 1..(i - 1) : s[j] # sep
         IN  << SubSeq(s, 1, k - 1) >> \o str_split(SubSeq(s, k + 1, Len(s)), sep)

\* a strip that leaves the string as it is
str_strip_id(s) == s

\* str.strip(): the string without its leading and trailing whitespace
RECURSIVE str_strip(_)
str_strip(s) ==
    IF s = << >> THEN s
    ELSE IF Head(s) = " " THEN str_strip(Tail(s))
    ELSE IF s[Len(s)] = " " THEN str_strip(SubSeq(s, 1, Len(s) - 1))
    ELSE s

\* the slice s[:-1]
DropLast(s) == SubSeq(s, 1, Len(s) - 1)

\* split_address: the tuple (address, name)
split_address(e) ==
    LET address == str_split(e, "<")
    IN  IF Len(address) = 1 THEN << address[1], << >> >>
        ELSE IF address[1] # << >>
        THEN << DropLast(address[2]), str_strip(address[1]) >>
        ELSE << DropLast(address[2]), << >> >>

\* the four forms the docstring of split_address lists, as the specification
\* writes them
BareForm == << "a", "@", "b", ".", "c", "o", "m" >>
BracketForm == << "<" >> \o BareForm \o << ">" >>
NameSpaceForm == << "N", "a", "m", "e", " " >> \o BracketForm
NameForm == << "N", "a", "m", "e" >> \o BracketForm

\* the strings of at most n characters
RECURSIVE Strings(_)
Strings(n) ==
    IF n = 0 THEN { << >> }
    ELSE LET shorter == Strings(n - 1)
         IN  shorter \cup { Append(s, c) : s \in shorter, c \in Chars }

AddrInit ==
    /\ MainInit
    /\ split = << >>
    /\ email_address \in Strings(MaxLen)
                         \cup { BareForm, BracketForm, NameSpaceForm, NameForm }

\* a call of split_address
SplitAddress ==
    /\ split = << >>
    /\ split' = split_address(email_address)
    /\ UNCHANGED << today, store, schema, pc, env, debug, print_arg, catalog,
                    stack, products, todo, out, sent, result, stage, store0,
                    day0, replaced, email_address >>

AddrNext == SplitAddress

AddrSpec == AddrInit /\ [][AddrNext]_vars

-----------------------------------------------------------------------------
(* Properties *)

\* the rows of the table captured on date d
RowsOn(st, d) ==
    LET on == { r \in DOMAIN st : r.date = d }
    IN  [r \in on |-> st[r]]

\* a process that ended by an exception or a kill, at one of `stages`
FailedAt(stages) == pc = "exit" /\ result # "ok" /\ stage \in stages

\* C1: replace_today is atomic: after a failure between the DELETE and the
\* last INSERT the table holds exactly the rows it held before the call.
Atomic_C1 ==
    (FailedAt(Replacing) /\ (stage = "db_vacuum" \/ todo # << >>))
        => store = store0

\* C2: the table holds at most one row per (capture date, product id).
OneRowPerDateAndId_C2 ==
    \A r \in DOMAIN store :
        /\ store[r] = 1
        /\ \A q \in DOMAIN store : (q.date = r.date /\ q.id = r.id) => q = r

\* C3: replace_today is idempotent: when the replace of today's rows has run
\* to its end once today with some input, running it again today with the
\* same input ends with the same rows (capture date, id, name, quantity).
SecondReplace ==
    /\ pc = "db_insert"
    /\ todo = << >>
    /\ day0 = today
    /\ replaced.day = today
    /\ replaced.input = BagOf(products)

Idempotent_C3 == SecondReplace => store = replaced.store

\* a second replace that started from the table the first one left, with rows
\* to write, next to a snapshot of an earlier day
Idempotent_C3_Witness ==
    /\ SecondReplace
    /\ store0 = replaced.store
    /\ Len(products) > 1
    /\ \E r \in DOMAIN store : r.date < today

\* whether the list vs holds ids of variations that form trees of at most
\* `depth` levels, each variation listing the ids of its children
RECURSIVE IdTrees(_, _)
IdTrees(vs, depth) ==
    \/ vs = << >>
    \/ /\ depth > 0
       /\ \A k \in 1..Len(vs) :
             /\ IsInt(vs[k])
             /\ Remote(vs[k].v) # << >>
             /\ IdTrees(Remote(vs[k].v)[1].variations, depth - 1)

\* the leaves below the ids vs, left to right
RECURSIVE LeafRecords(_)
LeafRecords(vs) ==
    IF vs = << >> THEN << >>
    ELSE LET item == Remote(Head(vs).v)[1]
         IN  (IF item.variations = << >> THEN << Stock(item) >>
                                         ELSE LeafRecords(item.variations))
             \o LeafRecords(Tail(vs))

\* the leaves of the variable products of a product list
RECURSIVE VariableLeaves(_)
VariableLeaves(all) ==
    IF all = << >> THEN << >>
    ELSE (IF Head(all).type = "variable" THEN LeafRecords(Head(all).variations)
                                         ELSE << >>)
         \o VariableLeaves(Tail(all))

\* the leaf records of a catalog: its simple products and the leaves of its
\* variable products
Leaves(cat) == SimpleStock(cat.list) \o VariableLeaves(cat.list)

\* a catalog that answers, whose variable products have trees of variation
\* ids, no leaf reached twice
TreeCatalog(cat) ==
    /\ cat.ok
    /\ \A k \in 1..Len(cat.list) :
          cat.list[k].type = "variable" => IdTrees(cat.list[k].variations, MaxDepth)
    /\ \A i, j \in 1..Len(Leaves(cat)) :
          Leaves(cat)[i].id = Leaves(cat)[j].id => i = j

\* get_current_stock_values has ended, by a return or by an exception
FetchEnded ==
    \/ pc = "db_open"
    \/ pc = "exit" /\ stage \in { "get", "expand" } /\ result # "crash"

\* C4: for a catalog whose variable products have trees of variation ids of
\* any depth, the fetch returns exactly the leaf records, each once.
DepthInvariant_C4 ==
    (FetchEnded /\ "API_BASE" \in env /\ TreeCatalog(catalog))
        => pc = "db_open" /\ BagOf(products) = BagOf(Leaves(catalog))

\* C5: the expansion of the variations ends with a result or with an error
\* the program reports, whatever the catalog answers: its depth is bounded by
\* the program, so it never runs the interpreter out of stack.
ExpansionBounded_C5 ==
    (pc = "exit" /\ stage = "expand") => result # "RecursionError"

\* C6: a run leaves the rows of every date but today's as they are: the
\* DELETE removes rows of the current date only and the INSERTs add rows of
\* the current date only, so the snapshot of an earlier day stays as the last
\* run of that day left it.
OtherDaysKept_C6 ==
    /\ [](\A r \in DOMAIN store : r.date \in 1..today)
    /\ [][\A d \in 1..MaxDay : d # today => RowsOn(store', d) = RowsOn(store, d)]_vars

\* the DELETE has just removed today's rows next to the rows of an earlier day
OtherDaysKept_C6_Witness ==
    /\ pc = "db_vacuum"
    /\ day0 = today
    /\ RowsOn(store0, today) # EmptyBag
    /\ RowsOn(store, today) = EmptyBag
    /\ \E r \in DOMAIN store : r.date < today

\* the table after today's rows of `st` were replaced by `prods` on date d
ReplacedBy(st, d, prods) ==
    DeleteToday(st, d) (+) BagOf([k \in 1..Len(prods) |-> Row(d, prods[k])])

\* a run that returned from main
Returned == pc = "exit" /\ result = "ok"

\* the last thing printed is the fixed line
PrintedFixedLine == out # << >> /\ out[Len(out)] = [line |-> "Cartridge Status"]

\* C7 as stated: under --debug no row is deleted or inserted, no email is
\* sent, and the run prints the fixed line and exits.
DebugSkipsPersistence_C7 ==
    debug => /\ store = store0
             /\ sent = << >>
             /\ Returned => PrintedFixedLine

\* C7 as amended: under --debug no email is sent, and the run replaces
\* today's rows as any run does, then prints the fixed line and exits.
DebugRun_C7 ==
    debug => /\ sent = << >>
             /\ Returned => /\ PrintedFixedLine
                            /\ day0 = today => store = ReplacedBy(store0, today, products)

\* a --debug run that returned after it changed the table
DebugRun_C7_Witness ==
    debug /\ Returned /\ store # store0 /\ day0 = today

\* C8: with a required configuration variable absent the run aborts before
\* any request to the catalog and any storage operation: it ends where it
\* builds its first request and gets no further.
ConfigFailsFast_C8 ==
    (env # Required /\ pc # "idle")
        => /\ pc \in { "get", "exit" }
           /\ pc = "exit" => stage = "get"

\* C10: a run whose fetch fails executes no DELETE and no INSERT: the table
\* is as it was before the run.
FetchFailureKeepsStore_C10 ==
    (pc \in { "get", "expand" } \/ FailedAt({ "get", "expand" })) => store = store0

\* a fetch that failed on the answer for a variation, with a snapshot of today
\* in the table
FetchFailureKeepsStore_C10_Witness ==
    /\ FailedAt({ "expand" })
    /\ result = "KeyError"
    /\ RowsOn(store0, today) # EmptyBag

\* the positions of `<` in a string
Brackets(e) == { k \in 1..Len(e) : e[k] = "<" }

\* the position of the first `<`
FirstBracket(e) == CHOOSE k \in Brackets(e) : \A j \in Brackets(e) : k <= j

\* a string without a trailing `>`
WithoutClosing(s) ==
    IF s # << >> /\ s[Len(s)] = ">" THEN SubSeq(s, 1, Len(s) - 1) ELSE s

\* a string trimmed: what lies between its first and its last character that
\* is not a blank
Trimmed(s) ==
    LET inked == { k \in 1..Len(s) : s[k] # " " }
    IN  IF inked = {} THEN << >>
        ELSE SubSeq(s, CHOOSE k \in inked : \A j \in inked : k <= j,
                       CHOOSE k \in inked : \A j \in inked : j <= k)

\* the parsing rule of the specification: (address, display name)
ParsingRule(e) ==
    IF Brackets(e) = {} THEN << e, << >> >>
    ELSE << WithoutClosing(SubSeq(e, FirstBracket(e) + 1, Len(e))),
            Trimmed(SubSeq(e, 1, FirstBracket(e) - 1)) >>

\* the four forms give the four results the specification lists
FourForms ==
    /\ email_address = BareForm => split = << BareForm, << >> >>
    /\ email_address = BracketForm => split = << BareForm, << >> >>
    /\ email_address = NameSpaceForm => split = << BareForm, << "N", "a", "m", "e" >> >>
    /\ email_address = NameForm => split = << BareForm, << "N", "a", "m", "e" >> >>

\* C9 as stated: split_address follows the parsing rule for every string.
ParsingRuleAlways_C9 ==
    split # << >> => (split = ParsingRule(email_address) /\ FourForms)

\* a string with no `<`, or with one `<` and a closing `>` at its end
Bracketed(e) ==
    \/ Brackets(e) = {}
    \/ Cardinality(Brackets(e)) = 1 /\ e[Len(e)] = ">"

\* C9 as amended: split_address follows the parsing rule for every string
\* that has no `<`, or has exactly one `<` and ends with `>`; the four forms
\* give the four listed results.
ParsingRuleBracketed_C9 ==
    (split # << >> /\ Bracketed(email_address))
        => (split = ParsingRule(email_address) /\ FourForms)

\* split_address returned for a name, a blank and a bracketed address
ParsingRuleBracketed_C9_Witness ==
    /\ split # << >>
    /\ email_address = NameSpaceForm
    /\ split[2] = << "N", "a", "m", "e" >>

====
